---- MODULE Spec2Model ----
(***************************************************************************)
(* Blockchain Version Control (bvc): the local repository documents under  *)
(* .bvc/ (config.json, staging.json, commits.json, checkpoints.json), the  *)
(* BVC ledger contract, and the CLI commands add, commit, checkpoint and   *)
(* pull that read and write them.  Each CLI invocation is one process that *)
(* runs to completion, so each command is one action.                      *)
(*                                                                         *)
(* Strings that the code compares by prefix (hex digests) are sequences of *)
(* characters; a character is a small natural number.                      *)
(***************************************************************************)
EXTENDS Integers, Sequences, FiniteSets, TLC

\* ---------------------------------------------------------------- bounds
MaxCommits == 2
MaxClock == 3
MaxCheckpoints == 2
MaxBuffer == 3

\* how many commit --amend invocations one process runs
MaxAmends == 1

\* ------------------------------------------------------- input alphabets
RealCid == "QmBundle"
TxResults == {"ok", "rejected", "reverted"}
NoArg == <<>>

VARIABLES config, staging, commits, checkpoints, running, dirs, repositories, repoIds,
          ledgerCommits, ledgerCheckpoints, now, last

vars == <<config, staging, commits, checkpoints, running, dirs, repositories, repoIds,
          ledgerCommits, ledgerCheckpoints, now, last>>

\* ------------------------------------------------------------ pure helpers

\* crypto.createHash('sha256').update(x).digest('hex'): collision-free, and
\* the digest of x is never x itself (the leading 0 marks a digest).
Sha256(x) == <<0>> \o x

\* new Date().toISOString() of the clock value t
toISOString(t) == <<t>>

\* String.prototype.startsWith
startsWith(s, p) == Len(p) <= Len(s) /\ SubSeq(s, 1, Len(p)) = p

\* lexicographic order on strings (Array.prototype.sort default comparison)
RECURSIVE LexLeq(_, _)
LexLeq(a, b) ==
  IF a = <<>> THEN TRUE
  ELSE IF b = <<>> THEN FALSE
  ELSE IF a[1] < b[1] THEN TRUE
  ELSE IF a[1] > b[1] THEN FALSE
  ELSE LexLeq(Tail(a), Tail(b))

RECURSIVE Insert(_, _)
Insert(x, s) ==
  IF s = <<>> THEN <<x>>
  ELSE IF LexLeq(x, Head(s)) THEN <<x>> \o s
  ELSE <<Head(s)>> \o Insert(x, Tail(s))

\* Array.prototype.sort
RECURSIVE sort(_)
sort(s) == IF s = <<>> THEN <<>> ELSE Insert(Head(s), sort(Tail(s)))

\* Array.prototype.join('')
RECURSIVE join(_)
join(s) == IF s = <<>> THEN <<>> ELSE Head(s) \o join(Tail(s))

\* Array.prototype.findIndex; positions are 1-based here, 0 is the code's -1
findIndex(s, P(_)) ==
  IF \E i \in 1..Len(s) : P(s[i])
  THEN CHOOSE i \in 1..Len(s) : P(s[i]) /\ \A j \in 1..(i - 1) : ~P(s[j])
  ELSE 0

hashesOf(cs) == [i \in 1..Len(cs) |-> cs[i].commitHash]

\* the report a finished invocation leaves: its name, its exit code, the
\* calls it made to the Content Store and to the ledger, and what it resolved
Report(op) ==
  [op |-> op, exit |-> 0, uploads |-> 0, commitTx |-> 0, checkpointTx |-> 0,
   amend |-> FALSE, dryRun |-> FALSE, remote |-> "none",
   fromIndex |-> 0, toIndex |-> 0]

\* CLIUtils.handleError: print the message, process.exit(1)
handleError(report) == [report EXCEPT !.exit = 1]

\* ------------------------------------------------------------------- add

addSingleFile_append(files, path, content) ==
  Append(files, [path |-> path, hash |-> Sha256(content), size |-> Len(content),
                 currentContent |-> content])

\* addSingleFile: hash the file, replace the staged entry of the same path or
\* append a new one (of the entry's fields the model keeps path, hash, size
\* and currentContent)
addSingleFile(files, path, content) ==
  LET fileInfo == [path |-> path, hash |-> Sha256(content), size |-> Len(content),
                   currentContent |-> content]
      existingIndex == findIndex(files, LAMBDA f : f.path = path)
  IN IF existingIndex # 0
     THEN [files EXCEPT ![existingIndex] = fileInfo]
     ELSE Append(files, fileInfo)

\* bvc add <file>: a path that does not exist is skipped with a warning
add(path, exists, content) ==
  /\ staging' = IF exists THEN addSingleFile(staging, path, content) ELSE staging
  /\ last' = Report("add")
  /\ UNCHANGED <<running, dirs, config, commits, checkpoints, repositories, repoIds, ledgerCommits, ledgerCheckpoints, now>>

\* ------------------------------------------------------------ the ledger

\* whether a submitted transaction takes effect on the ledger
mined(tx) == tx = "ok"

\* accounts (addresses, as numbers; 0 is the zero address) and repository names
Accounts == {1, 2, 3}
Names == {"demo", "lib"}

\* uint2str: the decimal digits of a number
RECURSIVE digitsOf(_)
digitsOf(i) ==
  IF i = 0 THEN ""
  ELSE digitsOf(i \div 10) \o <<"0", "1", "2", "3", "4", "5", "6", "7", "8", "9">>[(i % 10) + 1]

uint2str(i) == IF i = 0 THEN "0" ELSE digitsOf(i)

\* the id createRepo gives: abi.encodePacked(name, "-", uint2str(sender))
repoIdOf(name, sender) == name \o "-" \o uint2str(sender)

\* every id the ledger can hold
LedgerIds == {repoIdOf(n, a) : n \in Names, a \in Accounts}

\* the account whose key the working copy's user-config.json holds, the
\* repository it created, and a repository of the same name created by
\* another account
Wallet == 1
Mine == repoIdOf("demo", Wallet)
Foreign == repoIdOf("demo", 2)
RepoIds == {Mine, Foreign}

\* an entry of the repositories mapping that was never written
NoRepository == [name |-> "", owner |-> 0, exists |-> FALSE]

\* modifier repoExists
repoExists(repos, repoId) == repos[repoId].exists

onlyRepoOwner_anyone(repos, repoId, sender) == TRUE

\* modifier onlyRepoOwner
onlyRepoOwner(repos, repoId, sender) == repos[repoId].owner = sender

\* BVC.createRepo: the require, and the record written
createRepoAllowed(repos, name, sender) == ~repos[repoIdOf(name, sender)].exists

BVCcreateRepo(repos, name, sender) ==
  [repos EXCEPT ![repoIdOf(name, sender)] = [name |-> name, owner |-> sender, exists |-> TRUE]]

BVCcommit_noParent(lc, sender, repoId, commitHash, ipfsCid, message) ==
  [lc EXCEPT ![repoId] = Append(@,
     [commitHash |-> commitHash, parentHash |-> <<>>, author |-> sender,
      message |-> message, ipfsCid |-> ipfsCid])]

\* BVC.commit: append a record whose parent is the last recorded commit
BVCcommit(lc, sender, repoId, commitHash, ipfsCid, message) ==
  [lc EXCEPT ![repoId] = Append(@,
     [commitHash |-> commitHash,
      parentHash |-> IF Len(@) > 0 THEN @[Len(@)].commitHash ELSE <<>>,
      author |-> sender,
      message |-> message,
      ipfsCid |-> ipfsCid])]

BVCcheckpoint_replace(lk, repoId, fromCommit, toCommit, bundleCid, merkleRoot) ==
  [lk EXCEPT ![repoId] =
     <<[fromCommit |-> fromCommit, toCommit |-> toCommit,
        bundleCid |-> bundleCid, merkleRoot |-> merkleRoot]>>]

\* BVC.checkpoint: append a checkpoint record
BVCcheckpoint(lk, repoId, fromCommit, toCommit, bundleCid, merkleRoot) ==
  [lk EXCEPT ![repoId] = Append(@,
     [fromCommit |-> fromCommit, toCommit |-> toCommit,
      bundleCid |-> bundleCid, merkleRoot |-> merkleRoot])]

\* the contract applying the calls of one confirmed submission, in order
RECURSIVE applyCommits(_, _, _)
applyCommits(lc, repoId, calls) ==
  IF calls = <<>> THEN lc
  ELSE applyCommits(IF Head(calls).fn = "commit"
                    THEN BVCcommit(lc, Wallet, repoId, Head(calls).toCommit, Head(calls).bundleCid, <<>>)
                    ELSE lc,
                    repoId, Tail(calls))

RECURSIVE applyCheckpoints(_, _, _)
applyCheckpoints(lk, repoId, calls) ==
  IF calls = <<>> THEN lk
  ELSE applyCheckpoints(IF Head(calls).fn = "checkpoint"
                        THEN BVCcheckpoint(lk, repoId, Head(calls).fromCommit, Head(calls).toCommit,
                                           Head(calls).bundleCid, Head(calls).merkleRoot)
                        ELSE lk,
                        repoId, Tail(calls))

countCalls(calls, fn) == Cardinality({i \in 1..Len(calls) : calls[i].fn = fn})

\* ---------------------------------------------------------------- commit

commitHashOf_withoutTime(files, message, t) ==
  Sha256(join(sort([i \in 1..Len(files) |-> files[i].hash])) \o message)

\* commitHash: sha256 of the sorted file digests, the message and the time
commitHashOf(files, message, t) ==
  Sha256(join(sort([i \in 1..Len(files) |-> files[i].hash])) \o message \o toISOString(t))

nothingToCommit_unchecked(files, amend) == FALSE

\* "Nothing to commit": no staged file and not an amend
nothingToCommit(files, amend) == Len(files) = 0 /\ ~amend

blockchainSuccessOf_beforeCall(called, tx) == called

\* blockchainSuccess: set after commitToBlockchain has returned; a throw
\* from it is caught and leaves the flag false
blockchainSuccessOf(called, tx) == called /\ tx = "ok"

committedFiles_whole(files) == files

\* staging.files.map(f => ({ path, hash, size }))
committedFiles(files) ==
  [i \in 1..Len(files) |-> [path |-> files[i].path, hash |-> files[i].hash, size |-> files[i].size]]

\* bvc commit -m <message> [--amend] [--local-only]
\*   cfgs        where user-config.json exists at the time of the call
\*   initialized what BlockchainService.initialize returns
\*   upload      what uploadCommitToIPFS returns ('' when the bundle failed)
\*   tx          how the ledger transaction ends
commit(message, amend, localOnly, cfgs, initialized, upload, tx) ==
  IF nothingToCommit(staging, amend)
  THEN /\ last' = handleError([Report("commit") EXCEPT !.amend = amend])
       /\ UNCHANGED <<running, dirs, config, staging, commits, checkpoints, repositories, repoIds, ledgerCommits, ledgerCheckpoints, now>>
  ELSE
    \E commitHash \in {commitHashOf(staging, message, now)} :
    LET parentHash == IF Len(commits) > 0 THEN commits[Len(commits)].commitHash ELSE <<>>
        connected == ~localOnly /\ "repo" \in cfgs /\ initialized
        ipfsCid == IF connected THEN upload ELSE ""
        called == connected /\ config.repoId # "" /\ ipfsCid # ""
        blockchainSuccess == blockchainSuccessOf(called, tx)
        inPlace == amend /\ Len(commits) > 0
        newCommit == [commitHash |-> commitHash,
                      parentHash |-> parentHash,
                      message |-> message,
                      ipfsCid |-> ipfsCid,
                      blockchainRecorded |-> blockchainSuccess,
                      amended |-> FALSE,
                      files |-> committedFiles(staging)]
    IN /\ now < MaxClock
       /\ inPlace \/ Len(commits) < MaxCommits
       /\ now' = now + 1
       /\ ledgerCommits' = IF called /\ mined(tx)
                           THEN BVCcommit(ledgerCommits, Wallet, config.repoId, commitHash, ipfsCid, message)
                           ELSE ledgerCommits
       /\ commits' = IF inPlace
                     THEN [commits EXCEPT ![Len(commits)] =
                             [@ EXCEPT !.message = message, !.amended = TRUE]]
                     ELSE Append(commits, newCommit)
       /\ staging' = <<>>
       /\ last' = [Report("commit") EXCEPT
                     !.amend = amend,
                     !.uploads = IF connected THEN 1 ELSE 0,
                     !.commitTx = IF called THEN 1 ELSE 0,
                     !.remote = IF localOnly THEN "none"
                                ELSE IF called /\ mined(tx) THEN "ok" ELSE "failed"]
       /\ UNCHANGED <<running, dirs, config, checkpoints, repositories, repoIds, ledgerCheckpoints>>

\* ------------------------------------------------------------ checkpoint

\* createMerkleRoot: '' for no hash, the hash itself for one, else the
\* digest of the hashes joined
createMerkleRoot(hashes) ==
  IF Len(hashes) = 0 THEN <<>>
  ELSE IF Len(hashes) = 1 THEN hashes[1]
  ELSE Sha256(join(hashes))

commitsInRangeOf_exclusive(localCommits, fromIndex, toIndex) ==
  SubSeq(localCommits, fromIndex, toIndex - 1)

\* localCommits.slice(fromIndex, toIndex + 1), in 1-based positions
commitsInRangeOf(localCommits, fromIndex, toIndex) == SubSeq(localCommits, fromIndex, toIndex)

previewOnly_ignored(dryRun) == FALSE

\* if (options.dryRun) { ...; return }
previewOnly(dryRun) == dryRun

ledgerCalls_perCommit(commitsInRange, fromCommitHash, toCommitHash, bundleCid, merkleRoot) ==
  [i \in 1..Len(commitsInRange) |->
     [fn |-> "commit", fromCommit |-> <<>>, toCommit |-> commitsInRange[i].commitHash,
      bundleCid |-> bundleCid, merkleRoot |-> <<>>]]
  \o <<[fn |-> "checkpoint", fromCommit |-> fromCommitHash, toCommit |-> toCommitHash,
        bundleCid |-> bundleCid, merkleRoot |-> merkleRoot]>>

\* the ledger calls a checkpoint submits: one contract.checkpoint
ledgerCalls(commitsInRange, fromCommitHash, toCommitHash, bundleCid, merkleRoot) ==
  <<[fn |-> "checkpoint", fromCommit |-> fromCommitHash, toCommit |-> toCommitHash,
     bundleCid |-> bundleCid, merkleRoot |-> merkleRoot]>>

awaitReceipt_notAwaited(tx) == tx # "rejected"

\* await contract.checkpoint(...); await receipt.wait(): returns only when
\* the transaction is confirmed, throws when it is rejected or reverted
awaitReceipt(tx) == tx = "ok"

\* bvc checkpoint [--from <commit>] [--to <commit>] [--dry-run]
\* (fromIndex and toIndex are bound once, as the code's two const)
checkpoint(from, to, dryRun, cfgs, initialized, upload, tx) ==
  LET report == [Report("checkpoint") EXCEPT !.dryRun = dryRun]
      hasBlockchain == config.repoId # ""
      localCommits == commits
      fromCommit == IF from # NoArg THEN from ELSE localCommits[1].commitHash
      toCommit == IF to # NoArg THEN to ELSE localCommits[Len(localCommits)].commitHash
      quiet == UNCHANGED <<running, dirs, config, staging, commits, checkpoints, repositories, repoIds, ledgerCommits, ledgerCheckpoints, now>>
  IN
  IF ~hasBlockchain
  THEN last' = report /\ quiet
  ELSE IF Len(localCommits) = 0
  THEN last' = handleError(report) /\ quiet
  ELSE
    \E fromIndex \in {findIndex(localCommits, LAMBDA c : startsWith(c.commitHash, fromCommit))},
       toIndex \in {findIndex(localCommits, LAMBDA c : startsWith(c.commitHash, toCommit))} :
      LET resolved == [report EXCEPT !.fromIndex = fromIndex, !.toIndex = toIndex]
          commitsInRange == commitsInRangeOf(localCommits, fromIndex, toIndex)
          bundleCid == upload
          merkleRoot == createMerkleRoot(hashesOf(commitsInRange))
          fromCommitHash == localCommits[fromIndex].commitHash
          toCommitHash == localCommits[toIndex].commitHash
          calls == ledgerCalls(commitsInRange, fromCommitHash, toCommitHash, bundleCid, merkleRoot)
          sent == [resolved EXCEPT !.uploads = 1,
                                   !.commitTx = countCalls(calls, "commit"),
                                   !.checkpointTx = countCalls(calls, "checkpoint"),
                                   !.remote = IF mined(tx) THEN "ok" ELSE "failed"]
          newCheckpoint == [fromCommit |-> fromCommitHash,
                            toCommit |-> toCommitHash,
                            bundleCid |-> bundleCid,
                            merkleRoot |-> merkleRoot,
                            commitCount |-> Len(commitsInRange)]
      IN
      IF fromIndex = 0 \/ toIndex = 0 \/ fromIndex > toIndex
      THEN last' = handleError(report) /\ quiet
      ELSE IF previewOnly(dryRun)
      THEN last' = resolved /\ quiet
      ELSE IF "repo" \notin cfgs \/ ~initialized
      THEN last' = handleError([resolved EXCEPT !.remote = "failed"]) /\ quiet
      ELSE /\ awaitReceipt(tx) => Len(checkpoints) < MaxCheckpoints
           /\ ledgerCommits' = IF mined(tx)
                               THEN applyCommits(ledgerCommits, config.repoId, calls)
                               ELSE ledgerCommits
           /\ ledgerCheckpoints' = IF mined(tx)
                                   THEN applyCheckpoints(ledgerCheckpoints, config.repoId, calls)
                                   ELSE ledgerCheckpoints
           /\ checkpoints' = IF awaitReceipt(tx) THEN Append(checkpoints, newCheckpoint) ELSE checkpoints
           /\ last' = IF awaitReceipt(tx) THEN sent ELSE handleError(sent)
           /\ UNCHANGED <<running, dirs, config, staging, commits, repositories, repoIds, now>>

\* ------------------------------------------------------------------ pull

\* the local form of a ledger commit (pull.js builds it without files and
\* without blockchainRecorded; both read as empty / false)
localCommitOf(c) ==
  [commitHash |-> c.commitHash,
   parentHash |-> c.parentHash,
   message |-> c.message,
   ipfsCid |-> c.ipfsCid,
   blockchainRecorded |-> FALSE,
   amended |-> FALSE,
   files |-> <<>>]

\* bvc pull [commit-hash] [repo-id]
pull(commitHash, repoId, cfgs, initialized) ==
  LET report == Report("pull")
      targetRepoId == IF repoId # "" THEN repoId ELSE config.repoId
      hasBlockchain == targetRepoId # ""
      foundConfig == cfgs # {}
      connected == "repo" \in cfgs /\ initialized
      blockchainCommits == ledgerCommits[targetRepoId]
      localCommits == commits
      localHashes == {localCommits[i].commitHash : i \in 1..Len(localCommits)}
      fresh == SelectSeq(blockchainCommits, LAMBDA c : c.commitHash \notin localHashes)
      newCommits == IF commitHash # NoArg
                    THEN SelectSeq(fresh, LAMBDA c : startsWith(c.commitHash, commitHash))
                    ELSE fresh
      pulledCommits == [i \in 1..Len(newCommits) |-> localCommitOf(newCommits[i])]
      quiet == UNCHANGED <<running, dirs, config, staging, commits, checkpoints, repositories, repoIds, ledgerCommits, ledgerCheckpoints, now>>
  IN
  IF ~hasBlockchain
  THEN last' = report /\ quiet
  ELSE IF ~foundConfig \/ ~connected
  THEN last' = handleError(report) /\ quiet
  ELSE IF Len(blockchainCommits) = 0
  THEN last' = report /\ quiet
  ELSE IF commitHash # NoArg /\ Len(newCommits) = 0
  THEN last' = handleError(report) /\ quiet
  ELSE IF Len(newCommits) = 0
  THEN last' = report /\ quiet
  ELSE /\ Len(localCommits) + Len(newCommits) <= MaxCommits
       /\ commits' = localCommits \o pulledCommits
       /\ last' = report
       /\ UNCHANGED <<running, dirs, config, staging, checkpoints, repositories, repoIds, ledgerCommits, ledgerCheckpoints, now>>

\* ------------------------------------------------------------------ push

\* how the i-th transaction of a push ends
txAt(mode, i) ==
  IF mode = "firstRejected" THEN (IF i = 1 THEN "rejected" ELSE "ok") ELSE mode

\* the push loop over commitsToPush from position i on: every commit is
\* submitted with commitToBlockchain; a failure ends the loop by rethrowing
\* unless --force is given
RECURSIVE pushLoop(_, _, _, _, _, _)
pushLoop(acc, repoId, commitsToPush, i, force, mode) ==
  IF i > Len(commitsToPush) THEN acc
  ELSE IF mined(txAt(mode, i))
  THEN pushLoop([acc EXCEPT !.ledger = BVCcommit(@, Wallet, repoId, commitsToPush[i].commitHash,
                                                 commitsToPush[i].ipfsCid, commitsToPush[i].message),
                            !.pushed = @ + 1, !.calls = @ + 1],
                repoId, commitsToPush, i + 1, force, mode)
  ELSE IF ~force
  THEN [acc EXCEPT !.calls = @ + 1, !.thrown = TRUE]
  ELSE pushLoop([acc EXCEPT !.calls = @ + 1], repoId, commitsToPush, i + 1, force, mode)

\* bvc push [commit-hash] [--dry-run] [--force]
push(commitHash, dryRun, force, cfgs, initialized, mode) ==
  LET report == [Report("push") EXCEPT !.dryRun = dryRun]
      hasBlockchain == config.repoId # ""
      localCommits == commits
      foundConfig == cfgs # {}
      connected == "repo" \in cfgs /\ initialized
      quiet == UNCHANGED <<running, dirs, config, staging, commits, checkpoints, repositories, repoIds, ledgerCommits, ledgerCheckpoints, now>>
  IN
  IF ~hasBlockchain
  THEN last' = report /\ quiet
  ELSE IF Len(localCommits) = 0
  THEN last' = report /\ quiet
  ELSE IF ~foundConfig \/ ~connected
  THEN last' = handleError([report EXCEPT !.remote = "failed"]) /\ quiet
  ELSE
    \E unpushedCommits \in {SelectSeq(localCommits, LAMBDA c :
           c.commitHash \notin {ledgerCommits[config.repoId][k].commitHash :
                                  k \in 1..Len(ledgerCommits[config.repoId])})} :
    \E commitsToPush \in {IF commitHash # NoArg
                            THEN SelectSeq(unpushedCommits, LAMBDA c : startsWith(c.commitHash, commitHash))
                            ELSE unpushedCommits} :
      IF Len(unpushedCommits) = 0
      THEN last' = [report EXCEPT !.remote = "current"] /\ quiet
      ELSE IF Len(commitsToPush) = 0
      THEN last' = handleError(report) /\ quiet
      ELSE IF dryRun
      THEN last' = report /\ quiet
      ELSE
        \E done \in {pushLoop([ledger |-> ledgerCommits, pushed |-> 0, calls |-> 0, thrown |-> FALSE],
                                config.repoId, commitsToPush, 1, force, mode)} :
          LET sent == [report EXCEPT !.commitTx = done.calls,
                                     !.remote = IF done.pushed = Len(commitsToPush)
                                                THEN "ok" ELSE "failed"]
          IN /\ ledgerCommits' = done.ledger
             /\ last' = IF done.thrown THEN handleError(sent) ELSE sent
             /\ UNCHANGED <<running, dirs, config, staging, commits, checkpoints, repositories, repoIds, ledgerCheckpoints, now>>

\* --------------------------------------------- init --upgrade-blockchain

\* bvc init --upgrade-blockchain in an existing repository
\*   sender  the account of the key in the configuration that was found
\* When config.repoId is already set, the check against the ledger reads
\* foundConfig before its let declaration has run; the ReferenceError is
\* caught with "Could not verify blockchain repository. Re-upgrading..." and
\* the upgrade goes on. Every exit of this branch is a plain return.
upgradeBlockchain(cfgs, initialized, sender, tx) ==
  LET report == Report("upgrade")
      foundConfig == cfgs # {}
      blockchainRepoId == repoIdOf(config.name, sender)
      created == /\ initialized
                 /\ mined(tx)
                 /\ createRepoAllowed(repositories, config.name, sender)
      quiet == UNCHANGED <<running, dirs, config, staging, commits, checkpoints, repositories, repoIds, ledgerCommits, ledgerCheckpoints, now>>
  IN
  IF ~foundConfig
  THEN last' = report /\ quiet
  ELSE IF ~created
  THEN last' = [report EXCEPT !.remote = "failed"] /\ quiet
  ELSE /\ repositories' = BVCcreateRepo(repositories, config.name, sender)
       /\ repoIds' = Append(repoIds, blockchainRepoId)
       /\ config' = [config EXCEPT !.repoId = blockchainRepoId]
       /\ last' = [report EXCEPT !.remote = "ok"]
       /\ UNCHANGED <<running, dirs, staging, commits, checkpoints, ledgerCommits, ledgerCheckpoints, now>>

\* --------------------------------------------- transactions to the ledger

\* what a call to the contract did: the function, msg.sender, the repository
\* id it addressed, its other arguments and the reason it reverted with ("" when it
\* took effect)
Call(fn, sender, repoId, args, revert) ==
  [op |-> fn, sender |-> sender, repoId |-> repoId, args |-> args, revert |-> revert]

reverted(call) ==
  /\ last' = call
  /\ UNCHANGED <<running, dirs, config, staging, commits, checkpoints, repositories, repoIds,
                 ledgerCommits, ledgerCheckpoints, now>>

\* createRepo(name) sent by any account; a call that takes effect is mined
\* in a block of its own
txCreateRepo(name, sender) ==
  LET repoId == repoIdOf(name, sender)
  IN IF ~createRepoAllowed(repositories, name, sender)
     THEN reverted(Call("BVC.createRepo", sender, repoId, <<name>>, "Repository already exists"))
     ELSE /\ now < MaxClock
          /\ repositories' = BVCcreateRepo(repositories, name, sender)
          /\ repoIds' = Append(repoIds, repoId)
          /\ now' = now + 1
          /\ last' = Call("BVC.createRepo", sender, repoId, <<name>>, "")
          /\ UNCHANGED <<running, dirs, config, staging, commits, checkpoints, ledgerCommits, ledgerCheckpoints>>

\* commit(repoId, commitHash, ipfsCid, message) sent by any account
txCommit(repoId, commitHash, ipfsCid, message, sender) ==
  LET args == <<commitHash, ipfsCid, message>>
  IN IF ~repoExists(repositories, repoId)
     THEN reverted(Call("BVC.commit", sender, repoId, args, "Repository does not exist"))
     ELSE IF ~onlyRepoOwner(repositories, repoId, sender)
     THEN reverted(Call("BVC.commit", sender, repoId, args, "Not repository owner"))
     ELSE /\ now < MaxClock
          /\ ledgerCommits' = BVCcommit(ledgerCommits, sender, repoId, commitHash, ipfsCid, message)
          /\ now' = now + 1
          /\ last' = Call("BVC.commit", sender, repoId, args, "")
          /\ UNCHANGED <<running, dirs, config, staging, commits, checkpoints, repositories, repoIds,
                         ledgerCheckpoints>>

\* checkpoint(repoId, fromCommit, toCommit, bundleCid, merkleRoot) sent by
\* any account
txCheckpoint(repoId, fromCommit, toCommit, bundleCid, merkleRoot, sender) ==
  LET args == <<fromCommit, toCommit, bundleCid, merkleRoot>>
  IN IF ~repoExists(repositories, repoId)
     THEN reverted(Call("BVC.checkpoint", sender, repoId, args, "Repository does not exist"))
     ELSE IF ~onlyRepoOwner(repositories, repoId, sender)
     THEN reverted(Call("BVC.checkpoint", sender, repoId, args, "Not repository owner"))
     ELSE /\ now < MaxClock
          /\ ledgerCheckpoints' = BVCcheckpoint(ledgerCheckpoints, repoId, fromCommit, toCommit,
                                                bundleCid, merkleRoot)
          /\ now' = now + 1
          /\ last' = Call("BVC.checkpoint", sender, repoId, args, "")
          /\ UNCHANGED <<running, dirs, config, staging, commits, checkpoints, repositories, repoIds,
                         ledgerCommits>>

\* ------------------------------------------------ concurrent invocations

\* the CLI processes that can run at the same time in one repository
Procs == {1, 2}

\* what an invocation holds in memory between its awaits: where it is, its
\* arguments, the documents it has read, and (saved) for each document it
\* was the last to write, the loaded state that write was computed from
NoSave == [by |-> "none"]

Idle ==
  [pc |-> "idle", cmd |-> "", path |-> "", content |-> <<>>, message |-> <<>>,
   amend |-> FALSE, amends |-> 0, t |-> 0, staging |-> <<>>, commits |-> <<>>, newCommit |-> <<>>,
   saved |-> [commits |-> NoSave, staging |-> NoSave]]

\* a later write of a document by p replaces what any process saved before
overwritten(doc, p) ==
  [q \in Procs |-> IF q = p THEN running[q]
                   ELSE [running[q] EXCEPT !.saved[doc] = NoSave]]

localCommit_orphan(files, log, message, t) ==
  [commitHash |-> commitHashOf(files, message, t),
   parentHash |-> <<>>,
   message |-> message,
   ipfsCid |-> "",
   blockchainRecorded |-> FALSE,
   amended |-> FALSE,
   files |-> committedFiles(files)]

\* the commit that a local commit builds from what it has read
localCommit(files, log, message, t) ==
  [commitHash |-> commitHashOf(files, message, t),
   parentHash |-> IF Len(log) > 0 THEN log[Len(log)].commitHash ELSE <<>>,
   message |-> message,
   ipfsCid |-> "",
   blockchainRecorded |-> FALSE,
   amended |-> FALSE,
   files |-> committedFiles(files)]

savedCommits_merged(loaded, stored, newCommit) == Append(stored, newCommit)

\* the commits.json a commit writes: the array it read, with its commit pushed
savedCommits(loaded, stored, newCommit) == Append(loaded, newCommit)

\* the invocations under way that append a commit when they save: every
\* commit, and a commit --amend that finds the log empty
commitsInFlight ==
  Cardinality({p \in Procs :
                 /\ running[p].cmd = "commit"
                 /\ \/ ~running[p].amend /\ running[p].pc # "idle"
                    \/ running[p].pc = "readCommits" /\ Len(commits) = 0
                    \/ running[p].pc = "writeCommits" /\ Len(running[p].commits) = 0})

\* the last loaded commit with the new message, marked as amended
amendedCommit(loaded, message) ==
  [loaded[Len(loaded)] EXCEPT !.message = message, !.amended = TRUE]

\* bvc commit -m <message> [--amend] --local-only, await by await:
\* readJson(stagingPath)
commitReadStaging(p, message, amend) ==
  /\ running[p].pc = "idle"
  /\ (amend /\ Len(commits) > 0) \/ now + commitsInFlight < MaxClock
  /\ amend => running[p].amends < MaxAmends
  /\ running' = [running EXCEPT ![p] =
                   [@ EXCEPT !.pc = "readCommits", !.cmd = "commit", !.message = message,
                             !.amend = amend, !.amends = IF amend THEN @ + 1 ELSE @,
                             !.staging = staging]]
  /\ last' = Report("commit")
  /\ UNCHANGED <<dirs, config, staging, commits, checkpoints, repositories, repoIds,
                 ledgerCommits, ledgerCheckpoints, now>>

\* readJson(commitsPath), then the "Nothing to commit" exit, else the time
\* that goes into the commit hash
commitReadCommits(p) ==
  /\ running[p].pc = "readCommits"
  /\ IF nothingToCommit(running[p].staging, running[p].amend)
     THEN /\ running' = [running EXCEPT ![p] = [@ EXCEPT !.pc = "idle"]]
          /\ last' = handleError(Report("commit"))
     ELSE /\ running' = [running EXCEPT ![p] =
                           [@ EXCEPT !.pc = "writeCommits", !.commits = commits, !.t = now]]
          /\ last' = Report("commit")
  /\ UNCHANGED <<dirs, config, staging, commits, checkpoints, repositories, repoIds,
                 ledgerCommits, ledgerCheckpoints, now>>

\* the amend in place or commits.push(newCommit), then
\* writeJson(commitsPath, commits)
commitWriteCommits(p) ==
  /\ running[p].pc = "writeCommits"
  /\ IF running[p].amend /\ Len(running[p].commits) > 0
     THEN \E amended \in {amendedCommit(running[p].commits, running[p].message)} :
            /\ commits' = [running[p].commits EXCEPT ![Len(running[p].commits)] = amended]
            /\ running' = [overwritten("commits", p) EXCEPT ![p] =
                             [@ EXCEPT !.pc = "writeStaging", !.newCommit = amended,
                                       !.saved.commits = [by |-> "amend", loaded |-> running[p].commits,
                                                          newCommit |-> amended]]]
            /\ now' = now
     ELSE \E newCommit \in {localCommit(running[p].staging, running[p].commits, running[p].message,
                                          running[p].t)} :
            /\ commits' = savedCommits(running[p].commits, commits, newCommit)
            /\ running' = [overwritten("commits", p) EXCEPT ![p] =
                             [@ EXCEPT !.pc = "writeStaging", !.newCommit = newCommit,
                                       !.saved.commits = [by |-> "commit", loaded |-> running[p].commits,
                                                          newCommit |-> newCommit]]]
            /\ now' = now + 1
  /\ last' = Report("commit")
  /\ UNCHANGED <<dirs, config, staging, checkpoints, repositories, repoIds,
                 ledgerCommits, ledgerCheckpoints>>

\* writeJson(stagingPath, { files: [] })
commitWriteStaging(p) ==
  /\ running[p].pc = "writeStaging"
  /\ staging' = <<>>
  /\ running' = [overwritten("staging", p) EXCEPT ![p] =
                   [@ EXCEPT !.pc = "idle", !.saved.staging = [by |-> "commit"]]]
  /\ last' = Report("commit")
  /\ UNCHANGED <<dirs, config, commits, checkpoints, repositories, repoIds,
                 ledgerCommits, ledgerCheckpoints, now>>

\* bvc add <file>, await by await: readJson(stagingPath)
addReadStaging(p, path, content) ==
  /\ running[p].pc = "idle"
  /\ running' = [running EXCEPT ![p] =
                   [@ EXCEPT !.pc = "writeAdded", !.cmd = "add", !.path = path,
                             !.content = content, !.staging = staging]]
  /\ last' = Report("add")
  /\ UNCHANGED <<dirs, config, staging, commits, checkpoints, repositories, repoIds,
                 ledgerCommits, ledgerCheckpoints, now>>

\* addSingleFile(filePath, staging); writeJson(stagingPath, staging)
addWriteStaging(p) ==
  /\ running[p].pc = "writeAdded"
  /\ staging' = addSingleFile(running[p].staging, running[p].path, running[p].content)
  /\ running' = [overwritten("staging", p) EXCEPT ![p] =
                   [@ EXCEPT !.pc = "idle",
                             !.saved.staging = [by |-> "add", loaded |-> running[p].staging,
                                                path |-> running[p].path,
                                                content |-> running[p].content]]]
  /\ last' = Report("add")
  /\ UNCHANGED <<dirs, config, commits, checkpoints, repositories, repoIds,
                 ledgerCommits, ledgerCheckpoints, now>>

\* ------------------------------------------------------ the content store

\* how the POST to /api/v0/add ends: the Hash of the response, a response
\* that is not ok, or no response; and how `ipfs add -q` ends
HttpResults == {"QmHttp", "status", "unreachable"}
CliResults == {"QmCli", "failed"}
uploaded(result) == result \in {"QmHttp", "QmCli"}

\* String.prototype.substring(0, n)
substring(s, n) == SubSeq(s, 1, IF n < Len(s) THEN n ELSE Len(s))

\* digest('hex') as text
RECURSIVE hex(_)
hex(digest) == IF digest = <<>> THEN "" ELSE uint2str(Head(digest)) \o hex(Tail(digest))

\* `mock_${hash.substring(0, 8)}`
mockCidOf(buffer) == "mock_" \o hex(substring(Sha256(buffer), 8))

uploadBuffer_withoutCli(buffer, http, cli) ==
  IF uploaded(http)
  THEN [id |-> http, tried |-> <<"http">>, thrown |-> FALSE]
  ELSE [id |-> mockCidOf(buffer), tried |-> <<"http", "mock">>, thrown |-> FALSE]

\* IPFSService.uploadBuffer: the HTTP API; in its catch the command-line
\* tool; in that one's catch the mock identifier
uploadBuffer(buffer, http, cli) ==
  IF uploaded(http)
  THEN [id |-> http, tried |-> <<"http">>, thrown |-> FALSE]
  ELSE IF uploaded(cli)
  THEN [id |-> cli, tried |-> <<"http", "cli">>, thrown |-> FALSE]
  ELSE [id |-> mockCidOf(buffer), tried |-> <<"http", "cli", "mock">>, thrown |-> FALSE]

\* a call of uploadBuffer, reported with its arguments and what it returned
uploadBufferCall(buffer, http, cli) ==
  /\ \E done \in {uploadBuffer(buffer, http, cli)} :
       last' = [op |-> "uploadBuffer", buffer |-> buffer, http |-> http, cli |-> cli,
                id |-> done.id, tried |-> done.tried, thrown |-> done.thrown]
  /\ UNCHANGED <<running, dirs, config, staging, commits, checkpoints, repositories, repoIds,
                 ledgerCommits, ledgerCheckpoints, now>>

\* BlockchainService.uploadCommitToIPFS: the identifier that uploadBuffer
\* returns for the bundle, or '' when createCommitBundle throws (a file of
\* the bundle cannot be read)
uploadCommitToIPFS(buffer, readable, http, cli) ==
  IF readable THEN uploadBuffer(buffer, http, cli).id ELSE ""

\* -------------------------------------------------------- init and clone

\* a directory that init or clone can be asked to create, named like the
\* repository: whether it exists, whether it holds a .bvc directory, and
\* the documents in that .bvc
NoDirectory == [exists |-> FALSE, bvc |-> FALSE, documents |-> {}]

\* fs.ensureDir(repoPath); fs.ensureDir(bvcPath)
ensureDirs(d) == [d EXCEPT !.exists = TRUE, !.bvc = TRUE]

\* the documents init writes, and the documents clone writes
initDocuments == {"config.json", "staging.json", "commits.json"}
cloneDocuments == {"config.json", "commits.json", "user-config.json", "staging.json"}

\* InitializationChecker.checkConfiguration: needs .bvc/user-config.json in
\* the current directory, with valid settings
isValid(cfgs, valid) == "repo" \in cfgs /\ valid

\* bvc init <name> [--local-only]
\*   valid   whether the settings of the user configuration pass the check
init(name, localOnly, cfgs, valid, initialized, tx) ==
  LET report == Report("init")
      quiet == UNCHANGED <<running, config, staging, commits, checkpoints, repositories, repoIds,
                           ledgerCommits, ledgerCheckpoints, now>>
      created == initialized /\ mined(tx) /\ createRepoAllowed(repositories, name, Wallet)
  IN
  IF dirs[name].exists
  THEN last' = handleError(report) /\ dirs' = dirs /\ quiet
  ELSE IF localOnly
  THEN /\ dirs' = [dirs EXCEPT ![name] = [ensureDirs(@) EXCEPT !.documents = initDocuments]]
       /\ last' = report
       /\ quiet
  ELSE IF ~isValid(cfgs, valid)
  THEN /\ dirs' = [dirs EXCEPT ![name] = ensureDirs(@)]
       /\ last' = [report EXCEPT !.remote = "failed"]
       /\ quiet
  ELSE /\ dirs' = [dirs EXCEPT ![name] = [ensureDirs(@) EXCEPT !.documents = initDocuments]]
       /\ repositories' = IF created THEN BVCcreateRepo(repositories, name, Wallet) ELSE repositories
       /\ repoIds' = IF created THEN Append(repoIds, repoIdOf(name, Wallet)) ELSE repoIds
       /\ last' = [report EXCEPT !.remote = IF created THEN "ok" ELSE "failed"]
       /\ UNCHANGED <<running, config, staging, commits, checkpoints, ledgerCommits,
                      ledgerCheckpoints, now>>

\* bvc clone <repo-id> [directory] [--commit <hash>]
clone(repoId, directory, commitHash, cfgs, initialized) ==
  LET report == Report("clone")
      quiet == UNCHANGED <<running, config, staging, commits, checkpoints, repositories, repoIds,
                           ledgerCommits, ledgerCheckpoints, now>>
      targetDir == IF directory # "" THEN directory ELSE repositories[repoId].name
      blockchainCommits == ledgerCommits[repoId]
      targetCommit == findIndex(blockchainCommits, LAMBDA c : startsWith(c.commitHash, commitHash))
  IN
  IF cfgs = {} \/ ~initialized \/ ~repositories[repoId].exists
  THEN last' = handleError(report) /\ dirs' = dirs /\ quiet
  ELSE IF dirs[targetDir].exists /\ dirs[targetDir].bvc
  THEN last' = handleError(report) /\ dirs' = dirs /\ quiet
  ELSE IF Len(blockchainCommits) = 0 \/ (commitHash # NoArg /\ targetCommit = 0)
  THEN /\ dirs' = [dirs EXCEPT ![targetDir] = ensureDirs(@)]
       /\ last' = handleError(report)
       /\ quiet
  ELSE /\ dirs' = [dirs EXCEPT ![targetDir] = [ensureDirs(@) EXCEPT !.documents = cloneDocuments]]
       /\ last' = report
       /\ quiet

\* ------------------------------------------------------ the environment

\* a repository created by another working copy, already on the ledger
ForeignChain ==
  <<[commitHash |-> <<0, 9, 1>>, parentHash |-> <<>>, author |-> 2, message |-> <<7>>,
     ipfsCid |-> RealCid],
    [commitHash |-> <<0, 9, 2>>, parentHash |-> <<0, 9, 1>>, author |-> 2, message |-> <<8>>,
     ipfsCid |-> RealCid]>>

\* what a remote step can meet: no user-config.json in the repository (then
\* initialize is not called, or fails reading it), a failed initialize, or a
\* connection on which the upload and the transaction each end in some way
NoRemote == [cfgs |-> {}, initialized |-> FALSE, upload |-> "", tx |-> "rejected"]

Unconnected == {[NoRemote EXCEPT !.cfgs = c] : c \in {{}, {"home"}, {"repo"}}}

Connected(uploads) ==
  {[cfgs |-> {"repo"}, initialized |-> TRUE, upload |-> u, tx |-> t] :
     u \in uploads, t \in TxResults}

\* a connection on which every remote step succeeds
Working == [cfgs |-> {"repo"}, initialized |-> TRUE, upload |-> RealCid, tx |-> "ok"]

\* uploadCommitToIPFS returned '' (the bundle could not be made): no
\* transaction follows
UploadFailed == [Working EXCEPT !.upload = "", !.tx = "rejected"]

RemoteEnvs == Unconnected \cup Connected({RealCid}) \cup {UploadFailed}

\* the --from / --to arguments tried: absent or a full hash on both sides,
\* and a short prefix or a string matching nothing on either side
RangeArgs ==
  LET exact == {NoArg} \cup {commits[i].commitHash : i \in 1..Len(commits)}
      inexact == {<<5>>} \cup {SubSeq(commits[i].commitHash, 1, 3) : i \in 1..Len(commits)}
  IN (exact \X exact) \cup (inexact \X {NoArg}) \cup ({NoArg} \X inexact)

\* the [commit-hash] arguments tried: absent, a recorded hash, no match
PullArgs ==
  {NoArg, <<5>>}
    \cup UNION {{ledgerCommits[r][i].commitHash : i \in 1..Len(ledgerCommits[r])} : r \in RepoIds}

\* a repository right after init (local-only, or created on the ledger with
\* the wallet's account), beside the other account's repository
Init ==
  /\ config \in {[name |-> "demo", repoId |-> ""], [name |-> "demo", repoId |-> Mine]}
  /\ staging = <<>>
  /\ commits = <<>>
  /\ checkpoints = <<>>
  /\ running = [p \in Procs |-> Idle]
  /\ dirs = [d \in Names |-> NoDirectory]
  /\ repositories = [r \in LedgerIds |->
                       IF r = Foreign THEN [name |-> "demo", owner |-> 2, exists |-> TRUE]
                       ELSE IF r = config.repoId
                       THEN [name |-> "demo", owner |-> Wallet, exists |-> TRUE]
                       ELSE NoRepository]
  /\ repoIds = IF config.repoId = "" THEN <<Foreign>> ELSE <<Foreign, Mine>>
  /\ ledgerCommits = [r \in LedgerIds |-> IF r = Foreign THEN ForeignChain ELSE <<>>]
  /\ ledgerCheckpoints = [r \in LedgerIds |-> <<>>]
  /\ now = 1
  /\ last = Report("init")

\* ------------------------------------------------------- specifications

\* how a commit is run: against every environment, and with --local-only
\* without a configuration and on a working connection
CommitRuns == ({FALSE} \X RemoteEnvs) \cup ({TRUE} \X {NoRemote, Working})

\* how a pull is run: with every argument on a working connection, and with
\* no argument where there is no usable configuration or initialize fails
\* (pull sends no transaction and uploads nothing)
PullRuns ==
  (PullArgs \X ({""} \cup RepoIds) \X {Working})
    \cup ({NoArg} \X {""} \X Unconnected)

\* the commit log: add, commit [--amend] [--local-only] and pull, each remote
\* step meeting every environment
NextLog ==
  \/ \E exists \in BOOLEAN : add("f", exists, <<1>>)
  \/ \E amend \in BOOLEAN, run \in CommitRuns :
       commit(IF amend THEN <<8>> ELSE <<7>>, amend, run[1],
              run[2].cfgs, run[2].initialized, run[2].upload, run[2].tx)
  \/ \E run \in PullRuns : pull(run[1], run[2], run[3].cfgs, run[3].initialized)

SpecLog == Init /\ [][NextLog]_vars

\* how a checkpoint is run: for real against every environment, as a dry
\* run without a configuration and on a working connection
CheckpointRuns ==
  ({FALSE} \X (Unconnected \cup Connected({RealCid})))
    \cup ({TRUE} \X {NoRemote, Working})

\* checkpoints: checkpoint with every range argument and every way the
\* remote step can end, over logs built by local commits
Next ==
  \/ add("f", TRUE, <<1>>)
  \/ commit(<<7>>, FALSE, TRUE, {}, FALSE, "", "rejected")
  \/ \E range \in RangeArgs, run \in CheckpointRuns :
       checkpoint(range[1], range[2], run[1],
                  run[2].cfgs, run[2].initialized, run[2].upload, run[2].tx)

Spec == Init /\ [][Next]_vars

\* the files and the contents that add meets
Paths == {"f", "g"}
Contents == {<<1>>, <<2, 2>>}

\* staging: add of every file with every content, and commits of what is
\* staged, without a remote step and on a working connection
NextStage ==
  \/ \E path \in Paths, exists \in BOOLEAN, content \in Contents : add(path, exists, content)
  \/ \E run \in {<<TRUE, NoRemote>>, <<FALSE, Working>>} :
       commit(<<7>>, FALSE, run[1], run[2].cfgs, run[2].initialized, run[2].upload, run[2].tx)

SpecStage == Init /\ [][NextStage]_vars

\* how a push is run: for real on a working connection with every argument,
\* with and without --force, the transactions ending in every way; with no
\* usable configuration; and as a dry run
PushRuns ==
  (({NoArg, <<5>>} \cup {commits[i].commitHash : i \in 1..Len(commits)})
     \X {FALSE} \X BOOLEAN \X {Working} \X {"ok", "rejected", "firstRejected"})
    \cup ({NoArg} \X {FALSE} \X {FALSE} \X Unconnected \X {"ok"})
    \cup ({NoArg} \X {TRUE} \X {FALSE} \X {NoRemote, Working} \X {"ok"})

\* how an upgrade is run: without a configuration, or with one that holds
\* the key of any account, the transaction confirmed or not
UpgradeRuns ==
  ({[NoRemote EXCEPT !.cfgs = c] : c \in {{}, {"home"}}} \X {Wallet})
    \cup ({[Working EXCEPT !.tx = t] : t \in {"ok", "rejected"}} \X Accounts)

\* the remote commands over a log of local commits: push, checkpoint of the
\* whole log, pull and the upgrade of the repository
NextRemote ==
  \/ add("f", TRUE, <<1>>)
  \/ commit(<<7>>, FALSE, TRUE, {}, FALSE, "", "rejected")
  \/ \E run \in PushRuns :
       push(run[1], run[2], run[3], run[4].cfgs, run[4].initialized, run[5])
  \/ \E env \in {NoRemote, Working, [Working EXCEPT !.tx = "rejected"]} :
       checkpoint(NoArg, NoArg, FALSE, env.cfgs, env.initialized, env.upload, env.tx)
  \/ pull(NoArg, "", Working.cfgs, Working.initialized)
  \/ \E run \in UpgradeRuns :
       upgradeBlockchain(run[1].cfgs, run[1].initialized, run[2], run[1].tx)

SpecRemote == Init /\ [][NextRemote]_vars

\* the arguments of the contract calls: two commits and two checkpoints
CommitCalls == {<<<<0, 1>>, RealCid, <<7>>>>, <<<<0, 2>>, RealCid, <<8>>>>}
CheckpointCalls == {<<<<0, 1>>, <<0, 2>>, RealCid, <<0, 5>>>>, <<<<0, 2>>, <<0, 2>>, RealCid, <<0, 6>>>>}

\* the contract as any account can call it
NextLedger ==
  \/ \E name \in Names, sender \in Accounts : txCreateRepo(name, sender)
  \/ \E repoId \in LedgerIds, c \in CommitCalls, sender \in Accounts :
       txCommit(repoId, c[1], c[2], c[3], sender)
  \/ \E repoId \in LedgerIds, k \in CheckpointCalls, sender \in Accounts :
       txCheckpoint(repoId, k[1], k[2], k[3], k[4], sender)

SpecLedger == Init /\ [][NextLedger]_vars

\* the ledger shared by a working copy that pushes its commits with --force
\* and the accounts that call the contract directly
NextShared ==
  \/ add("f", TRUE, <<1>>)
  \/ commit(<<7>>, FALSE, TRUE, {}, FALSE, "", "rejected")
  \/ \E mode \in {"ok", "rejected", "firstRejected"} :
       push(NoArg, FALSE, TRUE, Working.cfgs, Working.initialized, mode)
  \/ \E name \in Names, sender \in Accounts : txCreateRepo(name, sender)
  \/ \E repoId \in RepoIds, c \in CommitCalls, sender \in Accounts :
       txCommit(repoId, c[1], c[2], c[3], sender)
  \/ \E repoId \in RepoIds, k \in CheckpointCalls, sender \in Accounts :
       txCheckpoint(repoId, k[1], k[2], k[3], k[4], sender)

SpecShared == Init /\ [][NextShared]_vars

\* two processes, each running add and commit invocations one after another,
\* their reads and writes interleaved in every order
NextRace ==
  \/ \E p \in Procs : commitReadStaging(p, <<6 + p>>, FALSE)
  \/ \E p \in Procs : commitReadCommits(p)
  \/ \E p \in Procs : commitWriteCommits(p)
  \/ \E p \in Procs : commitWriteStaging(p)
  \/ \E p \in Procs : addReadStaging(p, "f", <<p>>)
  \/ \E p \in Procs : addWriteStaging(p)

SpecRace == Init /\ [][NextRace]_vars

\* the same two processes, each of them also running commit --amend; they
\* commit with the same message, and the first of them stages the file
NextAmendRace ==
  \/ \E p \in Procs : commitReadStaging(p, <<7>>, FALSE)
  \/ \E p \in Procs : commitReadStaging(p, <<9>>, TRUE)
  \/ \E p \in Procs : commitReadCommits(p)
  \/ \E p \in Procs : commitWriteCommits(p)
  \/ \E p \in Procs : commitWriteStaging(p)
  \/ addReadStaging(1, "f", <<1>>)
  \/ addWriteStaging(1)

SpecAmendRace == Init /\ [][NextAmendRace]_vars

\* where a user-config.json can exist: in the repository's .bvc, in the home
\* directory's .bvc and in the parent directory's .bvc
ConfigPlaces == SUBSET {"repo", "home", "parent"}

\* the commands that connect, run with a usable configuration in every
\* combination of places, every remote step succeeding
NextConfig ==
  \/ add("f", TRUE, <<1>>)
  \/ \E cfgs \in ConfigPlaces : commit(<<7>>, FALSE, FALSE, cfgs, TRUE, RealCid, "ok")
  \/ \E cfgs \in ConfigPlaces : push(NoArg, FALSE, FALSE, cfgs, TRUE, "ok")
  \/ \E cfgs \in ConfigPlaces : checkpoint(NoArg, NoArg, FALSE, cfgs, TRUE, RealCid, "ok")
  \/ \E cfgs \in ConfigPlaces : pull(NoArg, "", cfgs, TRUE)

SpecConfig == Init /\ [][NextConfig]_vars

\* the bundles uploaded: every byte string of up to MaxBuffer bytes
Bytes == {0, 1, 2}
Buffers == UNION {[1..n -> Bytes] : n \in 1..MaxBuffer}

\* uploads of every bundle, the HTTP API and the command-line tool each
\* ending in every way
NextUpload ==
  \E buffer \in Buffers, http \in HttpResults, cli \in CliResults :
    uploadBufferCall(buffer, http, cli)

SpecUpload == Init /\ [][NextUpload]_vars

\* how the upload of a checkpoint bundle ends: the files readable or not,
\* the HTTP API and the command-line tool each ending in every way
BundleUploads ==
  {uploadCommitToIPFS(<<1>>, readable, http, cli) :
     readable \in BOOLEAN, http \in HttpResults, cli \in CliResults}

\* checkpoints of the whole log on a working ledger connection, the bundle
\* upload ending in every way
NextBundle ==
  \/ add("f", TRUE, <<1>>)
  \/ commit(<<7>>, FALSE, TRUE, {}, FALSE, "", "rejected")
  \/ \E upload \in BundleUploads, tx \in {"ok", "rejected"} :
       checkpoint(NoArg, NoArg, FALSE, Working.cfgs, Working.initialized, upload, tx)

SpecBundle == Init /\ [][NextBundle]_vars

\* how an init is run: --local-only, or against every environment with the
\* settings of the configuration valid or not
InitRuns ==
  ({TRUE} \X {NoRemote} \X {TRUE})
    \cup ({FALSE} \X (Unconnected \cup {Working, [Working EXCEPT !.tx = "rejected"]}) \X BOOLEAN)

\* how a clone is run: every repository id into the default or a named
\* directory, whole or up to a commit, connected or not
CloneRuns ==
  (LedgerIds \X ({""} \cup Names) \X {NoArg, <<0, 9, 1>>, <<5>>} \X {Working})
    \cup ({Foreign} \X {""} \X {NoArg} \X Unconnected)

\* creating repositories: init and clone into the directories, beside
\* createRepo calls of the other accounts
NextCreate ==
  \/ \E name \in Names, run \in InitRuns :
       init(name, run[1], run[2].cfgs, run[3], run[2].initialized, run[2].tx)
  \/ \E run \in CloneRuns :
       clone(run[1], run[2], run[3], run[4].cfgs, run[4].initialized)
  \/ \E name \in Names, sender \in Accounts : txCreateRepo(name, sender)

SpecCreate == Init /\ [][NextCreate]_vars

\* ------------------------------------------------------------- properties

docs == <<config, staging, commits, checkpoints>>
ledger == <<repositories, repoIds, ledgerCommits, ledgerCheckpoints>>

\* C1: in every reachable commits.json, every entry other than the first has
\* parentHash equal to the commitHash of the entry before it, and the first
\* entry has an empty parentHash.
C1_ParentChain ==
  \A i \in 1..Len(commits) :
    commits[i].parentHash = (IF i = 1 THEN <<>> ELSE commits[i - 1].commitHash)

\* C2: no two entries of commits.json carry the same commitHash.
C2_UniqueCommitHash ==
  \A i, j \in 1..Len(commits) : i # j => commits[i].commitHash # commits[j].commitHash

\* two commits made from the same staged digests and the same message
C2_Witness ==
  /\ Len(commits) >= 2
  /\ commits[1].files # <<>>
  /\ commits[1].files = commits[2].files
  /\ commits[1].message = commits[2].message

\* C3: the entry a successful checkpoint appends has fromCommit and toCommit
\* equal to the full hashes at the resolved positions fromIndex and toIndex,
\* commitCount = toIndex - fromIndex + 1, and its digest is taken over exactly
\* the commits at fromIndex..toIndex.
C3_CheckpointCoversRange ==
  [][(last'.op = "checkpoint" /\ checkpoints' # checkpoints) =>
       LET e == checkpoints'[Len(checkpoints')]
           fi == last'.fromIndex
           ti == last'.toIndex
       IN /\ Len(checkpoints') = Len(checkpoints) + 1
          /\ fi \in 1..Len(commits)
          /\ ti \in fi..Len(commits)
          /\ e.fromCommit = commits[fi].commitHash
          /\ e.toCommit = commits[ti].commitHash
          /\ e.commitCount = ti - fi + 1
          /\ e.merkleRoot = createMerkleRoot([k \in 1..(ti - fi + 1) |-> commits[fi + k - 1].commitHash])
    ]_vars

\* a checkpoint of the first commit alone in a log of two
C3_Witness ==
  /\ last.op = "checkpoint" /\ last.remote = "ok" /\ last.exit = 0
  /\ Len(commits) = 2 /\ last.fromIndex = 1 /\ last.toIndex = 1
  /\ checkpoints # <<>>
  /\ checkpoints[Len(checkpoints)].commitCount = 1

\* C4: a checkpoint whose remote step fails appends nothing to
\* checkpoints.json and exits with an error; checkpoints.json gains an entry
\* only in a checkpoint whose ledger transaction was confirmed.
C4_RemoteFailureRecordsNothing ==
  [][/\ (last'.op = "checkpoint" /\ last'.remote = "failed") =>
          (checkpoints' = checkpoints /\ last'.exit = 1)
     /\ (checkpoints' # checkpoints) =>
          /\ last'.op = "checkpoint" /\ last'.remote = "ok"
          /\ Len(ledgerCheckpoints'[config.repoId]) = Len(ledgerCheckpoints[config.repoId]) + 1
    ]_vars

\* a checkpoint whose transaction was submitted and failed
C4_Witness ==
  last.op = "checkpoint" /\ last.remote = "failed" /\ last.checkpointTx = 1 /\ last.exit = 1

\* C5: a checkpoint --dry-run makes no upload and no ledger call and leaves
\* every .bvc document and the ledger unchanged.
C5_DryRunChangesNothing ==
  [][(last'.op = "checkpoint" /\ last'.dryRun) =>
       /\ UNCHANGED <<docs, ledger>>
       /\ last'.uploads = 0 /\ last'.commitTx = 0 /\ last'.checkpointTx = 0
    ]_vars

\* a dry run that resolved a range in a repository that could checkpoint
C5_Witness ==
  last.op = "checkpoint" /\ last.dryRun /\ last.exit = 0 /\ last.fromIndex >= 1

\* C6: a successful checkpoint submits exactly one ledger transaction, a
\* record-checkpoint carrying fromCommit, toCommit, bundleCid and merkleRoot,
\* whatever the size of the range, and no record-commit.
C6_OneTransaction ==
  [][(last'.op = "checkpoint" /\ ~last'.dryRun /\ last'.remote = "ok") =>
       LET r == config.repoId
           e == checkpoints'[Len(checkpoints')]
       IN /\ last'.checkpointTx = 1 /\ last'.commitTx = 0
          /\ ledgerCommits' = ledgerCommits
          /\ ledgerCheckpoints'[r] =
               Append(ledgerCheckpoints[r],
                      [fromCommit |-> commits[last'.fromIndex].commitHash,
                       toCommit |-> commits[last'.toIndex].commitHash,
                       bundleCid |-> e.bundleCid,
                       merkleRoot |-> e.merkleRoot])
    ]_vars

\* a successful checkpoint over a range of more than one commit
C6_Witness ==
  last.op = "checkpoint" /\ last.remote = "ok" /\ last.exit = 0 /\ last.toIndex > last.fromIndex

positionOf(h) == CHOOSE i \in 1..Len(commits) : commits[i].commitHash = h
coveredBy(e) == positionOf(e.fromCommit)..positionOf(e.toCommit)

\* C7: no commit is covered by the ranges of two different entries of
\* checkpoints.json.
C7_NoCommitCoveredTwice ==
  \A i, j \in 1..Len(checkpoints) :
    i # j => coveredBy(checkpoints[i]) \cap coveredBy(checkpoints[j]) = {}

\* C8: a checkpoint on an empty commit chain ends with a reported error and
\* makes no remote call.
C8_EmptyChainFails ==
  (last.op = "checkpoint" /\ Len(commits) = 0) =>
    (last.exit = 1 /\ last.uploads = 0 /\ last.commitTx = 0 /\ last.checkpointTx = 0)

\* C9: a commit whose remote step was attempted and failed is still appended
\* with blockchainRecorded = false and staging is cleared; a stored commit has
\* blockchainRecorded = true only if the ledger holds the record of its hash.
C9_RemoteFailureKeepsLocalCommit ==
  [][/\ (last'.op = "commit" /\ ~last'.amend /\ last'.remote = "failed") =>
          /\ last'.exit = 0
          /\ Len(commits') = Len(commits) + 1
          /\ SubSeq(commits', 1, Len(commits)) = commits
          /\ commits'[Len(commits')].blockchainRecorded = FALSE
          /\ staging' = <<>>
     /\ \A i \in 1..Len(commits') :
          commits'[i].blockchainRecorded =>
            /\ config'.repoId # ""
            /\ \E k \in 1..Len(ledgerCommits'[config'.repoId]) :
                 ledgerCommits'[config'.repoId][k].commitHash = commits'[i].commitHash
    ]_vars

\* a commit whose ledger call was made and rejected
C9_Witness ==
  /\ last.op = "commit" /\ ~last.amend /\ last.remote = "failed"
  /\ last.uploads = 1 /\ last.commitTx = 1
  /\ commits # <<>> /\ ~commits[Len(commits)].blockchainRecorded

\* C10: a commit without --amend on an empty staging set exits with an error,
\* uploads nothing, calls no ledger and leaves commits.json and staging.json
\* unchanged.
C10_EmptyCommitRejected ==
  [][(last'.op = "commit" /\ ~last'.amend /\ Len(staging) = 0) =>
       /\ last'.exit = 1
       /\ last'.uploads = 0 /\ last'.commitTx = 0 /\ last'.checkpointTx = 0
       /\ UNCHANGED <<docs, ledger>>
    ]_vars

\* a rejected commit in a repository that already has a commit
C10_Witness ==
  last.op = "commit" /\ last.exit = 1 /\ ~last.amend /\ staging = <<>> /\ commits # <<>>

\* C11: a successful commit without --amend appends exactly one entry whose
\* files list holds the (path, hash, size) of each staged entry and nothing
\* else, leaves the earlier entries as they were and empties staging.json.
C11_CommitAppendsStagedFiles ==
  [][(last'.op = "commit" /\ ~last'.amend /\ last'.exit = 0) =>
       LET files == commits'[Len(commits')].files
       IN /\ Len(commits') = Len(commits) + 1
          /\ SubSeq(commits', 1, Len(commits)) = commits
          /\ Len(files) = Len(staging)
          /\ \A i \in 1..Len(staging) :
               files[i] = [path |-> staging[i].path, hash |-> staging[i].hash,
                           size |-> staging[i].size]
          /\ staging' = <<>>
    ]_vars

\* a second commit, of two staged files
C11_Witness ==
  /\ last.op = "commit" /\ ~last.amend /\ last.exit = 0
  /\ Len(commits) = 2 /\ Len(commits[2].files) = 2 /\ staging = <<>>

\* C13: staging.json holds at most one entry per path; after an add of a
\* path its entry carries the digest of the content just added and the
\* entries of the other paths are as before; nothing but add and the reset of
\* a commit changes staging.json; and a new commit records for each staged
\* path the staged digest only.
C13_LatestDigestStaged ==
  [][/\ \A i, j \in 1..Len(staging') : i # j => staging'[i].path # staging'[j].path
     /\ \A p \in Paths, c \in Contents :
          add(p, TRUE, c) =>
            /\ \E i \in 1..Len(staging') :
                 staging'[i].path = p /\ staging'[i].hash = Sha256(c)
            /\ {staging'[i] : i \in {k \in 1..Len(staging') : staging'[k].path # p}}
                 = {staging[i] : i \in {k \in 1..Len(staging) : staging[k].path # p}}
     /\ last'.op # "add" => (staging' = staging \/ staging' = <<>>)
     /\ (last'.op = "commit" /\ Len(commits') = Len(commits) + 1) =>
          LET files == commits'[Len(commits')].files
          IN \A i \in 1..Len(staging), j \in 1..Len(files) :
               files[j].path = staging[i].path => files[j].hash = staging[i].hash
    ]_vars

\* both files staged, the first of them with the second content
C13_Witness ==
  /\ last.op = "add" /\ Len(staging) = 2
  /\ staging[1].path = "f" /\ staging[1].currentContent = <<2, 2>>
  /\ commits # <<>>

\* C12: commit --amend replaces the last entry of commits.json in place: the
\* number of entries is the same before and after, every entry but the last
\* is unchanged, the last entry carries amended = true and keeps its
\* parentHash.
C12_AmendInPlace ==
  [][(last'.op = "commit" /\ last'.amend /\ last'.exit = 0) =>
       /\ Len(commits') = Len(commits)
       /\ \A i \in 1..(Len(commits) - 1) : commits'[i] = commits[i]
       /\ Len(commits) > 0 =>
            /\ commits'[Len(commits)].amended
            /\ commits'[Len(commits)].parentHash = commits[Len(commits)].parentHash
    ]_vars

\* C14: once config.repoId is not empty, no operation writes another value
\* into it.
C14_RepoIdSetOnce ==
  [][config.repoId # "" => config'.repoId = config.repoId]_vars

\* C15: a push or a checkpoint that is not a dry run and ends with exit code
\* 0 has made its ledger write (or, for push, found every commit on the
\* ledger already); in every other case it ends with an error.
C15_RemoteCommandsFailLoudly ==
  (last.op \in {"push", "checkpoint"} /\ ~last.dryRun /\ last.exit = 0) =>
    last.remote \in {"ok", "current"}

\* C16: a createRepo(name) call made when a repository with that name has
\* already been created reverts with "Repository already exists" and leaves
\* the contract state unchanged.
C16_DuplicateNameReverts ==
  [][(/\ last'.op = "BVC.createRepo"
      /\ \E r \in LedgerIds : repositories[r].exists /\ repositories[r].name = last'.args[1])
     => (last'.revert = "Repository already exists" /\ UNCHANGED ledger)]_vars

\* C17: a commit or checkpoint call on an existing repository changes the
\* ledger only when the caller is the account that created the repository; from
\* any other account it reverts with "Not repository owner" and leaves the
\* ledger unchanged; and the owner of a repository never changes.
C17_OnlyOwnerWrites ==
  [][/\ \A r \in LedgerIds :
          repositories[r].exists => repositories'[r].owner = repositories[r].owner
     /\ (last'.op \in {"BVC.commit", "BVC.checkpoint"} /\ repositories[last'.repoId].exists)
          => IF last'.sender = repositories[last'.repoId].owner
             THEN last'.revert = ""
             ELSE last'.revert = "Not repository owner" /\ UNCHANGED ledger]_vars

C17_Witness ==
  /\ last.op \in {"BVC.commit", "BVC.checkpoint"}
  /\ last.revert = "Not repository owner"
  /\ Len(ledgerCommits[last.repoId]) > 2

\* C18: a commit call that takes effect appends exactly one record at the end
\* of the repository's commit list, holding the arguments, the caller as
\* author and the commitHash of the record that was last before the call as
\* parentHash (empty for the first), and leaves the other repositories'
\* commit lists unchanged.
C18_CommitAppendsRecord ==
  [][(last'.op = "BVC.commit" /\ last'.revert = "")
     => /\ ledgerCommits'[last'.repoId] =
             Append(ledgerCommits[last'.repoId],
                    [commitHash |-> last'.args[1],
                     parentHash |-> IF Len(ledgerCommits[last'.repoId]) = 0 THEN <<>>
                                    ELSE ledgerCommits[last'.repoId][Len(ledgerCommits[last'.repoId])].commitHash,
                     author |-> last'.sender,
                     message |-> last'.args[3],
                     ipfsCid |-> last'.args[2]])
        /\ \A r \in LedgerIds \ {last'.repoId} : ledgerCommits'[r] = ledgerCommits[r]]_vars

C18_Witness ==
  /\ last.op = "BVC.commit"
  /\ last.revert = ""
  /\ Len(ledgerCommits[last.repoId]) > 1
  /\ \E r \in LedgerIds \ {last.repoId} : Len(ledgerCommits[r]) > 0

\* whether s is the beginning of t
isPrefix(s, t) == s = t \/ (Len(s) < Len(t) /\ \A i \in 1..Len(s) : t[i] = s[i])

C20_LastSaveWins ==
  /\ \A p \in Procs :
       /\ running[p].saved.commits.by = "commit"
            => commits = Append(running[p].saved.commits.loaded, running[p].saved.commits.newCommit)
       /\ running[p].saved.staging.by = "commit" => staging = <<>>
       /\ running[p].saved.staging.by = "add"
            => staging = addSingleFile(running[p].saved.staging.loaded,
                                       running[p].saved.staging.path,
                                       running[p].saved.staging.content)
  /\ \A p, q \in Procs :
       (/\ p # q
        /\ running[p].cmd = "commit" /\ running[p].pc \in {"writeStaging", "idle"}
        /\ running[q].cmd = "commit" /\ running[q].pc \in {"writeStaging", "idle"}
        /\ running[p].saved.commits.by = "commit"
        /\ Len(running[p].commits) = Len(running[q].commits))
       => /\ Len(commits) = Len(running[p].commits) + 1
          /\ commits[Len(commits)] = running[p].newCommit
          /\ \A i \in 1..Len(commits) : commits[i] # running[q].newCommit

C20_Witness ==
  \E p, q \in Procs :
    /\ p # q
    /\ running[p].cmd = "commit" /\ running[p].pc = "idle"
    /\ running[q].cmd = "commit" /\ running[q].pc = "idle"
    /\ running[p].saved.commits.by = "commit"
    /\ running[p].commits = running[q].commits
    /\ Len(commits) = Len(running[p].commits) + 1

\* the position --from or --to resolves to: the first commit in chain order
\* whose commitHash begins with the argument (0 when there is none), or the
\* default position when the argument is absent
resolvedAt(arg, default) ==
  IF arg = NoArg THEN default
  ELSE findIndex(commits, LAMBDA c : startsWith(c.commitHash, arg))

\* a range whose --from or --to matches no commit, or whose from position
\* is after its to position
badRange(from, to) ==
  \/ resolvedAt(from, 1) = 0
  \/ resolvedAt(to, Len(commits)) = 0
  \/ resolvedAt(from, 1) > resolvedAt(to, Len(commits))

\* C21: a checkpoint whose --from or --to matches no commit, or whose from
\* position is after its to position, ends with an error, without an upload or
\* a ledger call, and leaves checkpoints.json unchanged.
C21_BadRangeFails ==
  [][\A range \in RangeArgs, run \in CheckpointRuns :
       (/\ last'.op = "checkpoint"
        /\ (range[1] # NoArg \/ range[2] # NoArg)
        /\ badRange(range[1], range[2])
        /\ checkpoint(range[1], range[2], run[1],
                      run[2].cfgs, run[2].initialized, run[2].upload, run[2].tx))
       => /\ last'.exit = 1
          /\ last'.uploads = 0
          /\ last'.checkpointTx = 0
          /\ checkpoints' = checkpoints]_vars

\* C22: the merkleRoot that a checkpoint sends to the ledger and stores in
\* checkpoints.json is the SHA-256 digest of the commitHash values of the
\* commits in its range, joined in chain order, for a range of any length.
C22_MerkleRootIsDigest ==
  [][(last'.op = "checkpoint" /\ last'.remote = "ok")
     => \E digest \in {Sha256(join(hashesOf(SubSeq(commits, last'.fromIndex, last'.toIndex))))} :
          /\ checkpoints'[Len(checkpoints')].merkleRoot = digest
          /\ ledgerCheckpoints'[config.repoId][Len(ledgerCheckpoints'[config.repoId])].merkleRoot = digest]_vars

\* C23: commit, checkpoint, push and pull connect whenever a usable
\* user-config.json exists in the repository, the home directory or the
\* parent directory: the commit is uploaded, the checkpoint and the push
\* reach the ledger, and the pull ends without an error.
C23_FirstConfigurationFound ==
  [][\A cfgs \in ConfigPlaces \ {{}} :
       /\ Len(staging) > 0 =>
            (commit(<<7>>, FALSE, FALSE, cfgs, TRUE, RealCid, "ok") => last'.uploads = 1)
       /\ (config.repoId # "" /\ Len(commits) > 0) =>
            /\ checkpoint(NoArg, NoArg, FALSE, cfgs, TRUE, RealCid, "ok") => last'.remote = "ok"
            /\ push(NoArg, FALSE, FALSE, cfgs, TRUE, "ok") => last'.remote \in {"ok", "current"}
       /\ config.repoId # "" => (pull(NoArg, "", cfgs, TRUE) => last'.exit = 0)]_vars

\* C24: uploadBuffer tries the HTTP API first, the command-line tool only
\* when the HTTP upload failed and the mock identifier only when both failed;
\* it never throws; what it returns begins with "mock_" exactly when both
\* uploads failed; and two calls with the same bytes that both fall back
\* return the same mock identifier.
C24_UploadFallsBackInOrder ==
  [][last'.op = "uploadBuffer"
     => /\ ~last'.thrown
        /\ last'.tried[1] = "http"
        /\ (\E i \in DOMAIN last'.tried : last'.tried[i] = "cli") <=> ~uploaded(last'.http)
        /\ (\E i \in DOMAIN last'.tried : last'.tried[i] = "mock")
             <=> (~uploaded(last'.http) /\ ~uploaded(last'.cli))
        /\ startsWith(last'.id, "mock_") <=> (~uploaded(last'.http) /\ ~uploaded(last'.cli))
        /\ uploaded(last'.http) => last'.id = last'.http
        /\ (~uploaded(last'.http) /\ uploaded(last'.cli)) => last'.id = last'.cli
        /\ (/\ last.op = "uploadBuffer"
            /\ last.buffer = last'.buffer
            /\ startsWith(last.id, "mock_")
            /\ startsWith(last'.id, "mock_")) => last'.id = last.id]_vars

C24_Witness ==
  /\ last.op = "uploadBuffer"
  /\ last.http = "status"
  /\ last.cli = "failed"
  /\ last.id = "mock_0120"

\* C25: the commitHash that a commit command (with or without --amend) has
\* recorded on the ledger is the commitHash of an entry of commits.json when
\* the command finishes.
C25_LedgerHashIsLocal ==
  [][(last'.op = "commit" /\ ledgerCommits' # ledgerCommits)
     => \E i \in 1..Len(commits') :
          commits'[i].commitHash =
            ledgerCommits'[config.repoId][Len(ledgerCommits'[config.repoId])].commitHash]_vars

\* C26: when a step removes a staged path from staging.json, the same step
\* stores that entry's path and digest in the files of a commit of
\* commits.json that it has appended or rewritten.
C26_StagedEntriesCommitted ==
  [][\A i \in 1..Len(staging) :
       (\A j \in 1..Len(staging') : staging'[j].path # staging[i].path)
       => \E c \in 1..Len(commits') :
            /\ c > Len(commits) \/ commits'[c] # commits[c]
            /\ \E f \in 1..Len(commits'[c].files) :
                 /\ commits'[c].files[f].path = staging[i].path
                 /\ commits'[c].files[f].hash = staging[i].hash]_vars

\* C27: every checkpoint in checkpoints.json or on the ledger carries a
\* bundleCid that is neither empty nor a "mock_" identifier.
C27_BundleCidIsReal ==
  /\ \A i \in 1..Len(checkpoints) :
       checkpoints[i].bundleCid # "" /\ ~startsWith(checkpoints[i].bundleCid, "mock_")
  /\ \A r \in LedgerIds : \A i \in 1..Len(ledgerCheckpoints[r]) :
       /\ ledgerCheckpoints[r][i].bundleCid # ""
       /\ ~startsWith(ledgerCheckpoints[r][i].bundleCid, "mock_")

\* whether the entries of s occur in t, field for field, in the same order
RECURSIVE isSubsequence(_, _)
isSubsequence(s, t) ==
  IF s = <<>> THEN TRUE
  ELSE IF t = <<>> THEN FALSE
  ELSE IF /\ Head(s).fromCommit = Head(t).fromCommit
          /\ Head(s).toCommit = Head(t).toCommit
          /\ Head(s).bundleCid = Head(t).bundleCid
          /\ Head(s).merkleRoot = Head(t).merkleRoot
       THEN isSubsequence(Tail(s), Tail(t))
       ELSE isSubsequence(s, Tail(t))

\* C28: the entries of checkpoints.json are, in order, a subsequence of the
\* checkpoint records confirmed on the ledger for config.repoId.
C28_LocalCheckpointsOnLedger ==
  IF config.repoId = "" THEN checkpoints = <<>>
  ELSE isSubsequence(checkpoints, ledgerCheckpoints[config.repoId])

\* C29: after every init or clone, a directory that holds a .bvc directory
\* holds config.json, staging.json and commits.json in it.
C29_CreatedRepositoryComplete ==
  \A d \in Names :
    dirs[d].bvc => {"config.json", "staging.json", "commits.json"} \subseteq dirs[d].documents

====
